---- MODULE Spec2Model ----
(***************************************************************************)
(* A model of poly-commit's data_structures.rs: the labeled wrappers       *)
(* LabeledPolynomial (a label, a Cow'd polynomial, two optional bounds)    *)
(* and LabeledCommitment (a label, an owned commitment, an optional        *)
(* bound), their constructors, accessors, Clone, Drop and ToBytes, and     *)
(* the capability traits a concrete scheme implements.                     *)
(*                                                                         *)
(* The caller's program state is: the polynomials the caller owns          *)
(* (store), the wrapper values the caller holds (vals), and the result of  *)
(* the last call (ret).  args is a history variable: what was handed to    *)
(* the constructor of each held value.                                     *)
(***************************************************************************)
EXTENDS Integers, Sequences, FiniteSets, TLC

\* ------------------------------------------------------------------ bounds

\* The field F is a type parameter; the model instantiates it with Z_7.
FieldModulus == 7
\* Polynomials have at most MaxLen coefficients.
MaxLen == 3
\* Option<usize> arguments range over None, Some(0) .. Some(MaxBound).
MaxBound == 2
\* The caller owns NumSlots polynomial variables that can be borrowed.
NumSlots == 1
\* A byte sink accepts between 0 and MaxSinkCap bytes.
MaxSinkCap == 3
\* Universal parameters support degrees up to MaxDegree.
MaxDegree == 3
\* A scheme run holds at most NumKeys trimmed key pairs.
NumKeys == 2

\* ------------------------------------------------------------------- types

None == <<>>
Some(x) == <<x>>
is_some(o) == o # None
Field == 0 .. (FieldModulus - 1)
OptionUsize == {None} \cup {Some(n) : n \in 0 .. MaxBound}
Labels == {"", "p1"}
\* The caller holds up to two wrapper values at a time, in its variables a
\* and b: two values are what an owned and a borrowed value, or a clone and
\* its original, take.
Holders == {"a", "b"}
Slots == 1 .. NumSlots

SeqsUpTo(S, n) == UNION {[1 .. k -> S] : k \in 0 .. n}
\* Every coefficient vector of the model's field, up to MaxLen coefficients.
AllPolys == SeqsUpTo(Field, MaxLen)
\* The polynomials the caller of the lifecycle specification works with:
\* a constant and the spec's example [1,2,3] ...
SomePolys == {p \in AllPolys : p \in {<<4>>, <<1, 2, 3>>}}
\* ... and the bounds it passes: none, or one below the degree of [1,2,3].
SomeBounds == {o \in OptionUsize : o \in {None, Some(1)}}
\* ... and the points it evaluates at (the accessors are compared at every
\* point of the field all the same).
SomePoints == {x \in Field : x \in {1, 3}}

VARIABLES store, vals, args, ret, pp, keys

vars == <<store, vals, args, ret, pp, keys>>

Free == [kind |-> "Free"]
NoCall == [op |-> "none", h |-> "", arg |-> None, val |-> None]

\* ---------------------------------------------------- Polynomial<F>, Cow

\* Polynomial::evaluate of the dense polynomial with coefficients p (lowest
\* degree first) at point x, by Horner's rule in the field.
RECURSIVE Polynomial_evaluate(_, _)
Polynomial_evaluate(p, x) ==
    IF p = <<>> THEN 0
    ELSE (p[1] + x * Polynomial_evaluate(Tail(p), x)) % FieldModulus

Cow_Owned(p) == [tag |-> "Owned", val |-> p, ref |-> 0]
Cow_Borrowed(s) == [tag |-> "Borrowed", val |-> <<>>, ref |-> s]

\* What a reference to a polynomial that no longer exists reads as; no
\* coefficient vector of the field equals it.
Dangling == <<FieldModulus>>

\* Deref of Cow<'a, Polynomial<F>>: the owned value, or the polynomial the
\* reference points at.
Cow_deref(cow) ==
    IF cow.tag = "Owned" THEN cow.val
    ELSE IF store[cow.ref] = None THEN Dangling ELSE store[cow.ref][1]

\* Clone of Cow: Owned clones the polynomial, Borrowed copies the reference.
Cow_clone(cow) ==
    IF cow.tag = "Owned" THEN Cow_Owned(cow.val) ELSE Cow_Borrowed(cow.ref)

\* ------------------------------------------------------- LabeledPolynomial

\* A new_owned that validates: a degree bound below the polynomial's degree
\* is refused.
LabeledPolynomial_new_owned_checked(label, polynomial, degree_bound, hiding_bound) ==
    IF is_some(degree_bound) /\ degree_bound[1] + 1 < Len(polynomial)
    THEN [kind |-> "Error"]
    ELSE [kind |-> "LabeledPolynomial",
          label |-> label,
          polynomial |-> Cow_Owned(polynomial),
          degree_bound |-> degree_bound,
          hiding_bound |-> hiding_bound]

LabeledPolynomial_new_owned(label, polynomial, degree_bound, hiding_bound) ==
    [kind |-> "LabeledPolynomial",
     label |-> label,
     polynomial |-> Cow_Owned(polynomial),
     degree_bound |-> degree_bound,
     hiding_bound |-> hiding_bound]

\* A slip in new: the two Option<usize> arguments stored in each other's field.
LabeledPolynomial_new_swapped(label, polynomial, degree_bound, hiding_bound) ==
    [kind |-> "LabeledPolynomial",
     label |-> label,
     polynomial |-> Cow_Borrowed(polynomial),
     degree_bound |-> hiding_bound,
     hiding_bound |-> degree_bound]

LabeledPolynomial_new(label, polynomial, degree_bound, hiding_bound) ==
    [kind |-> "LabeledPolynomial",
     label |-> label,
     polynomial |-> Cow_Borrowed(polynomial),
     degree_bound |-> degree_bound,
     hiding_bound |-> hiding_bound]

LabeledPolynomial_label(self) == self.label

LabeledPolynomial_polynomial(self) == Cow_deref(self.polynomial)

LabeledPolynomial_deref(self) == Cow_deref(self.polynomial)

\* An evaluate that enforces the degree bound by truncating: only the
\* coefficients up to the bound are evaluated.
LabeledPolynomial_evaluate_truncated(self, point) ==
    LET p == Cow_deref(self.polynomial)
        n == IF is_some(self.degree_bound) /\ self.degree_bound[1] + 1 < Len(p)
             THEN self.degree_bound[1] + 1 ELSE Len(p)
    IN  Polynomial_evaluate(SubSeq(p, 1, n), point)

LabeledPolynomial_evaluate(self, point) ==
    Polynomial_evaluate(Cow_deref(self.polynomial), point)

LabeledPolynomial_degree_bound(self) == self.degree_bound

\* A slip in is_hiding: the other bound is consulted.
LabeledPolynomial_is_hiding_by_degree(self) == is_some(self.degree_bound)

LabeledPolynomial_is_hiding(self) == is_some(self.hiding_bound)

LabeledPolynomial_hiding_bound(self) == self.hiding_bound

\* #[derive(Clone)]: every field is cloned.
LabeledPolynomial_clone(self) ==
    [kind |-> "LabeledPolynomial",
     label |-> self.label,
     polynomial |-> Cow_clone(self.polynomial),
     degree_bound |-> self.degree_bound,
     hiding_bound |-> self.hiding_bound]

\* A drop that frees what a borrowed value points at, as if it owned it.
LabeledPolynomial_drop_referent(self) ==
    IF self.polynomial.tag = "Borrowed"
    THEN [store EXCEPT ![self.polynomial.ref] = None]
    ELSE store

\* The caller's polynomials after a LabeledPolynomial is dropped: an owned
\* polynomial lives inside the value, and dropping a reference frees nothing.
LabeledPolynomial_drop(self) == store

IsLP(h) == vals[h].kind = "LabeledPolynomial"
IsLC(h) == vals[h].kind = "LabeledCommitment"

\* The lifetime 'a: while a value borrows slot s, the caller can neither
\* assign to nor drop the polynomial in s.
Borrowed(s) ==
    \E h \in Holders :
        IsLP(h) /\ vals[h].polynomial.tag = "Borrowed" /\ vals[h].polynomial.ref = s

Call(op, h, arg, val) == [op |-> op, h |-> h, arg |-> arg, val |-> val]

NewOwned(h, label, polynomial, degree_bound, hiding_bound) ==
    /\ vals[h] = Free
    /\ vals' = [vals EXCEPT ![h] =
           LabeledPolynomial_new_owned(label, polynomial, degree_bound, hiding_bound)]
    /\ args' = [args EXCEPT ![h] =
           [ctor |-> "new_owned", label |-> label, polynomial |-> polynomial,
            degree_bound |-> degree_bound, hiding_bound |-> hiding_bound]]
    /\ ret' = Call("new_owned", h, None, "value")
    /\ UNCHANGED <<store, pp, keys>>

New(h, label, s, degree_bound, hiding_bound) ==
    /\ vals[h] = Free
    /\ store[s] # None
    /\ vals' = [vals EXCEPT ![h] =
           LabeledPolynomial_new(label, s, degree_bound, hiding_bound)]
    /\ args' = [args EXCEPT ![h] =
           [ctor |-> "new", label |-> label, polynomial |-> store[s][1],
            degree_bound |-> degree_bound, hiding_bound |-> hiding_bound]]
    /\ ret' = Call("new", h, None, "value")
    /\ UNCHANGED <<store, pp, keys>>

\* The accessors take &self: the value and everything else stay as they are.
ReadLP(op, h, arg, val) ==
    /\ IsLP(h)
    /\ ret' = Call(op, h, arg, val)
    /\ UNCHANGED <<store, vals, args, pp, keys>>

Label(h) == ReadLP("label", h, None, LabeledPolynomial_label(vals[h]))
GetPolynomial(h) == ReadLP("polynomial", h, None, LabeledPolynomial_polynomial(vals[h]))
Deref(h) == ReadLP("deref", h, None, LabeledPolynomial_deref(vals[h]))
\* An evaluate that takes the polynomial by Cow::to_mut: a borrowed value
\* becomes an owned one in place.
Evaluate_to_mut(h, point) ==
    /\ IsLP(h)
    /\ vals' = [vals EXCEPT ![h].polynomial = Cow_Owned(Cow_deref(@))]
    /\ ret' = Call("evaluate", h, Some(point), LabeledPolynomial_evaluate(vals[h], point))
    /\ UNCHANGED <<store, args, pp, keys>>

Evaluate(h, point) ==
    ReadLP("evaluate", h, Some(point), LabeledPolynomial_evaluate(vals[h], point))
DegreeBound(h) == ReadLP("degree_bound", h, None, LabeledPolynomial_degree_bound(vals[h]))
IsHiding(h) == ReadLP("is_hiding", h, None, LabeledPolynomial_is_hiding(vals[h]))
HidingBound(h) == ReadLP("hiding_bound", h, None, LabeledPolynomial_hiding_bound(vals[h]))

CloneLP(h, h2) ==
    /\ IsLP(h)
    /\ vals[h2] = Free
    /\ vals' = [vals EXCEPT ![h2] = LabeledPolynomial_clone(vals[h])]
    /\ args' = [args EXCEPT ![h2] = args[h]]
    /\ ret' = Call("clone", h2, Some(h), "value")
    /\ UNCHANGED <<store, pp, keys>>

DropLP(h) ==
    /\ IsLP(h)
    /\ store' = LabeledPolynomial_drop(vals[h])
    /\ vals' = [vals EXCEPT ![h] = Free]
    /\ args' = [args EXCEPT ![h] = Free]
    /\ ret' = Call("drop", h, None, None)
    /\ UNCHANGED <<pp, keys>>

\* The caller assigns to its own polynomial variable, or drops it.
CallerAssign(s, p) ==
    /\ ~Borrowed(s)
    /\ store' = [store EXCEPT ![s] = Some(p)]
    /\ ret' = NoCall
    /\ UNCHANGED <<vals, args, pp, keys>>

CallerDrop(s) ==
    /\ ~Borrowed(s)
    /\ store[s] # None
    /\ store' = [store EXCEPT ![s] = None]
    /\ ret' = NoCall
    /\ UNCHANGED <<vals, args, pp, keys>>

\* ------------------------------------------- a PCCommitment implementation

\* The commitment type C is a parameter of LabeledCommitment.  The model's
\* scheme commits to a polynomial by its value at the setup's secret point,
\* and carries a second (shifted) value exactly when a degree bound is
\* enforced.
Commitment(comm, shifted_comm) == [comm |-> comm, shifted_comm |-> shifted_comm]
AllCommitments ==
    {Commitment(c, s) : c \in Field, s \in {None} \cup {Some(x) : x \in Field}}

\* An empty() that carries a shifted value, as a commitment with a degree
\* bound does.
Commitment_empty_shifted == Commitment(0, Some(0))

\* PCCommitment::empty: the non-hiding commitment to the zero polynomial.
Commitment_empty == Commitment(Polynomial_evaluate(<<>>, 0), None)

\* PCCommitment::has_degree_bound
Commitment_has_degree_bound(self) == is_some(self.shifted_comm)

\* The scheme's byte encoding: the value, a flag byte, and the shifted value
\* when there is one.
Commitment_to_bytes(self) ==
    <<self.comm>> \o
    (IF is_some(self.shifted_comm) THEN <<1, self.shifted_comm[1]>> ELSE <<0>>)

\* PCCommitment::size_in_bytes
Commitment_size_in_bytes(self) == Len(Commitment_to_bytes(self))

\* The commitments the caller of the lifecycle specification wraps.
SomeCommitments ==
    {c \in AllCommitments :
        c \in {Commitment_empty, Commitment(5, Some(2))}}

\* ---------------------------------------------------------- std::io::Write

\* A byte sink that has taken `bytes` and accepts `cap` bytes in all.
Sink(bytes, cap) == [bytes |-> bytes, cap |-> cap]
EmptySink(cap) == Sink(<<>>, cap)
IoResult(res, writer) == [res |-> res, writer |-> writer]

\* Write::write_all on a bounded sink: the bytes that fit are taken, and the
\* call fails when some do not.
Write_write_all(writer, buf) ==
    LET room == writer.cap - Len(writer.bytes)
    IN  IF Len(buf) <= room
        THEN IoResult("Ok", Sink(writer.bytes \o buf, writer.cap))
        ELSE IoResult("Err", Sink(writer.bytes \o SubSeq(buf, 1, room), writer.cap))

\* ToBytes::write of the commitment: its encoding goes to the sink.
Commitment_write(self, writer) == Write_write_all(writer, Commitment_to_bytes(self))

\* ------------------------------------------------------- LabeledCommitment

LabeledCommitment_new(label, commitment, degree_bound) ==
    [kind |-> "LabeledCommitment",
     label |-> label,
     commitment |-> commitment,
     degree_bound |-> degree_bound]

LabeledCommitment_label(self) == self.label

LabeledCommitment_commitment(self) == self.commitment

LabeledCommitment_degree_bound(self) == self.degree_bound

\* #[derive(Clone)]: every field is cloned.
LabeledCommitment_clone(self) ==
    [kind |-> "LabeledCommitment",
     label |-> self.label,
     commitment |-> self.commitment,
     degree_bound |-> self.degree_bound]

\* The encoding of a label: its length, then its characters.
LabelBytes(label) == IF label = "p1" THEN <<2, 112, 49>> ELSE <<0>>

\* A write that serializes the label before the commitment.
LabeledCommitment_write_labeled(self, writer) ==
    LET r == Write_write_all(writer, LabelBytes(self.label))
    IN  IF r.res = "Err" THEN r ELSE Commitment_write(self.commitment, r.writer)

\* A write that discards the commitment's outcome and reports success.
LabeledCommitment_write_masked(self, writer) ==
    IoResult("Ok", Commitment_write(self.commitment, writer).writer)

\* impl ToBytes for LabeledCommitment: self.commitment.write(writer)
LabeledCommitment_write(self, writer) == Commitment_write(self.commitment, writer)

NewLC(h, label, commitment, degree_bound) ==
    /\ vals[h] = Free
    /\ vals' = [vals EXCEPT ![h] = LabeledCommitment_new(label, commitment, degree_bound)]
    /\ args' = [args EXCEPT ![h] =
           [ctor |-> "LabeledCommitment::new", label |-> label,
            commitment |-> commitment, degree_bound |-> degree_bound]]
    /\ ret' = Call("LabeledCommitment::new", h, None, "value")
    /\ UNCHANGED <<store, pp, keys>>

\* The accessors and write take &self.
ReadLC(op, h, arg, val) ==
    /\ IsLC(h)
    /\ ret' = Call(op, h, arg, val)
    /\ UNCHANGED <<store, vals, args, pp, keys>>

LabelLC(h) == ReadLC("label", h, None, LabeledCommitment_label(vals[h]))
GetCommitment(h) == ReadLC("commitment", h, None, LabeledCommitment_commitment(vals[h]))
DegreeBoundLC(h) ==
    ReadLC("degree_bound", h, None, LabeledCommitment_degree_bound(vals[h]))
WriteLC(h, cap) ==
    ReadLC("write", h, Some(cap), LabeledCommitment_write(vals[h], EmptySink(cap)))

CloneLC(h, h2) ==
    /\ IsLC(h)
    /\ vals[h2] = Free
    /\ vals' = [vals EXCEPT ![h2] = LabeledCommitment_clone(vals[h])]
    /\ args' = [args EXCEPT ![h2] = args[h]]
    /\ ret' = Call("clone", h2, Some(h), "value")
    /\ UNCHANGED <<store, pp, keys>>

DropLC(h) ==
    /\ IsLC(h)
    /\ vals' = [vals EXCEPT ![h] = Free]
    /\ args' = [args EXCEPT ![h] = Free]
    /\ ret' = Call("drop", h, None, None)
    /\ UNCHANGED <<store, pp, keys>>

\* The caller writes a commitment that is not wrapped.
WriteBare(c, cap) ==
    /\ ret' = Call("Commitment::write", "", Some(cap), Commitment_write(c, EmptySink(cap)))
    /\ UNCHANGED <<store, vals, args, pp, keys>>

\* ------------------------------------------------------- specifications

Init ==
    /\ store \in [Slots -> {None} \cup {Some(p) : p \in SomePolys}]
    /\ vals = [h \in Holders |-> Free]
    /\ args = [h \in Holders |-> Free]
    /\ ret = NoCall
    /\ pp = None
    /\ keys = [k \in 1 .. NumKeys |-> None]

\* The guards that do not depend on the arguments come first, so that the
\* arguments are enumerated only where the call can happen.
Next ==
    \/ \E h \in Holders :
        /\ vals[h] = Free
        /\ \E l \in Labels, db \in SomeBounds, hb \in SomeBounds :
            \/ \E p \in SomePolys : NewOwned(h, l, p, db, hb)
            \/ \E s \in Slots : New(h, l, s, db, hb)
    \/ \E h \in Holders :
        /\ IsLP(h)
        /\ \/ Label(h)
           \/ GetPolynomial(h)
           \/ Deref(h)
           \/ \E x \in SomePoints : Evaluate(h, x)
           \/ DegreeBound(h)
           \/ IsHiding(h)
           \/ HidingBound(h)
           \/ \E h2 \in Holders : CloneLP(h, h2)
           \/ DropLP(h)
    \/ \E s \in Slots :
        \/ \E p \in SomePolys : CallerAssign(s, p)
        \/ CallerDrop(s)
    \/ \E h \in Holders :
        /\ vals[h] = Free
        /\ \E l \in Labels, c \in SomeCommitments, db \in SomeBounds : NewLC(h, l, c, db)
    \/ \E h \in Holders :
        /\ IsLC(h)
        /\ \/ LabelLC(h)
           \/ GetCommitment(h)
           \/ DegreeBoundLC(h)
           \/ \E cap \in 0 .. MaxSinkCap : WriteLC(h, cap)
           \/ \E h2 \in Holders : CloneLC(h, h2)
           \/ DropLC(h)

Spec == Init /\ [][Next]_vars

\* The wrapping of single polynomials, over every polynomial of the field:
\* one value is built by new_owned, read and dropped.
InitEval == Init /\ store = [s \in Slots |-> None]

NextEval ==
    \/ /\ vals["a"] = Free
       /\ \E l \in Labels, p \in AllPolys, db \in OptionUsize, hb \in SomeBounds :
            NewOwned("a", l, p, db, hb)
    \/ /\ IsLP("a")
       /\ \/ \E x \in Field : Evaluate("a", x)
          \/ DegreeBound("a")
          \/ IsHiding("a")
          \/ DropLP("a")

SpecEval == InitEval /\ [][NextEval]_vars

\* ---------------------------------------------- a scheme behind the traits

\* The traits PCUniversalParams, PCCommitterKey, PCVerifierKey and
\* PCCommitment are implemented by a concrete scheme.  The model's scheme is
\* a powers-of-tau setup: the universal parameters hold the powers
\* tau^0 .. tau^max_degree, a committer key holds a prefix of them, and a
\* commitment is the polynomial's value at tau.
RECURSIVE PowerOfTau(_)
PowerOfTau(i) == IF i = 0 THEN 1 ELSE (3 * PowerOfTau(i - 1)) % FieldModulus

Scheme_setup(max_degree) == [powers |-> [i \in 1 .. max_degree + 1 |-> PowerOfTau(i - 1)]]

\* PCUniversalParams::max_degree
UniversalParams_max_degree(self) == Len(self.powers) - 1

\* Trimming with no check of the requested degree: the verifier key records
\* the degree asked for.
Scheme_trim_unchecked(params, supported_degree) ==
    LET n == IF supported_degree <= UniversalParams_max_degree(params)
             THEN supported_degree ELSE UniversalParams_max_degree(params)
    IN  [res |-> "Ok",
         ck |-> [powers |-> SubSeq(params.powers, 1, n + 1),
                 max_degree |-> UniversalParams_max_degree(params)],
         vk |-> [supported_degree |-> supported_degree,
                 max_degree |-> UniversalParams_max_degree(params)]]

\* Trimming the universal parameters to a supported degree: a degree above
\* the setup's is an error of the scheme.
Scheme_trim(params, supported_degree) ==
    IF supported_degree > UniversalParams_max_degree(params)
    THEN [res |-> "Err"]
    ELSE [res |-> "Ok",
          ck |-> [powers |-> SubSeq(params.powers, 1, supported_degree + 1),
                  max_degree |-> UniversalParams_max_degree(params)],
          vk |-> [supported_degree |-> supported_degree,
                  max_degree |-> UniversalParams_max_degree(params)]]

\* PCCommitterKey::max_degree, PCCommitterKey::supported_degree
CommitterKey_max_degree(self) == self.max_degree
CommitterKey_supported_degree(self) == Len(self.powers) - 1

\* PCVerifierKey::max_degree, PCVerifierKey::supported_degree
VerifierKey_max_degree(self) == self.max_degree
VerifierKey_supported_degree(self) == self.supported_degree

RECURSIVE InnerProduct(_, _)
InnerProduct(p, powers) ==
    IF p = <<>> THEN 0
    ELSE (p[1] * powers[1] + InnerProduct(Tail(p), Tail(powers))) % FieldModulus

\* The scheme's commit: the value of the polynomial at tau, and with a degree
\* bound the value shifted to the top of the key's powers.
Scheme_commit(ck, p, degree_bound) ==
    LET comm == InnerProduct(p, ck.powers)
        top == CommitterKey_supported_degree(ck)
    IN  Commitment(comm,
            IF is_some(degree_bound)
            THEN Some((comm * PowerOfTau(top - degree_bound[1])) % FieldModulus)
            ELSE None)

Setup(max_degree) ==
    /\ pp = None
    /\ pp' = Some(Scheme_setup(max_degree))
    /\ ret' = Call("setup", "", Some(max_degree), "value")
    /\ UNCHANGED <<store, vals, args, keys>>

Trim(k, supported_degree) ==
    /\ pp # None
    /\ keys[k] = None
    /\ LET r == Scheme_trim(pp[1], supported_degree)
       IN  /\ keys' = IF r.res = "Ok" THEN [keys EXCEPT ![k] = Some(r)] ELSE keys
           /\ ret' = Call("trim", "", Some(supported_degree), r.res)
    /\ UNCHANGED <<store, vals, args, pp>>

DropKeys(k) ==
    /\ keys[k] # None
    /\ keys' = [keys EXCEPT ![k] = None]
    /\ ret' = Call("drop", "", None, None)
    /\ UNCHANGED <<store, vals, args, pp>>

KeyDegrees(k) ==
    /\ keys[k] # None
    /\ ret' = Call("supported_degree", "", Some(k),
                   <<CommitterKey_supported_degree(keys[k][1].ck),
                     CommitterKey_max_degree(keys[k][1].ck),
                     VerifierKey_supported_degree(keys[k][1].vk),
                     VerifierKey_max_degree(keys[k][1].vk)>>)
    /\ UNCHANGED <<store, vals, args, pp, keys>>

Empty ==
    /\ ret' = Call("empty", "", None, Commitment_empty)
    /\ UNCHANGED <<store, vals, args, pp, keys>>

\* commit under key k: the polynomial and its bound fit the key.
Commit(k, p, degree_bound) ==
    /\ keys[k] # None
    /\ Len(p) <= CommitterKey_supported_degree(keys[k][1].ck) + 1
    /\ is_some(degree_bound) =>
         /\ Len(p) <= degree_bound[1] + 1
         /\ degree_bound[1] <= CommitterKey_supported_degree(keys[k][1].ck)
    /\ ret' = Call("commit", "", Some(degree_bound),
                   Scheme_commit(keys[k][1].ck, p, degree_bound))
    /\ UNCHANGED <<store, vals, args, pp, keys>>

HasDegreeBound ==
    /\ ret.op \in {"empty", "commit"}
    /\ ret' = Call("has_degree_bound", "", Some(ret.val), Commitment_has_degree_bound(ret.val))
    /\ UNCHANGED <<store, vals, args, pp, keys>>

NextScheme ==
    \/ \E d \in 0 .. MaxDegree : Setup(d)
    \/ \E k \in 1 .. NumKeys :
        \/ \E d \in 0 .. MaxDegree : Trim(k, d)
        \/ DropKeys(k)
        \/ KeyDegrees(k)
        \/ \E p \in SomePolys \cup {<<>>}, db \in OptionUsize : Commit(k, p, db)
    \/ Empty
    \/ HasDegreeBound
    \/ \E c \in SomeCommitments, cap \in 0 .. MaxSinkCap : WriteBare(c, cap)

SpecScheme == InitEval /\ [][NextScheme]_vars

\* ------------------------------------------------------------- observers

\* Everything the public interface lets a caller read from a value.
ObsLP(v) ==
    [label |-> LabeledPolynomial_label(v),
     polynomial |-> LabeledPolynomial_polynomial(v),
     deref |-> LabeledPolynomial_deref(v),
     evaluate |-> [x \in Field |-> LabeledPolynomial_evaluate(v, x)],
     degree_bound |-> LabeledPolynomial_degree_bound(v),
     hiding_bound |-> LabeledPolynomial_hiding_bound(v),
     is_hiding |-> LabeledPolynomial_is_hiding(v)]

ObsLC(v) ==
    [label |-> LabeledCommitment_label(v),
     commitment |-> LabeledCommitment_commitment(v),
     degree_bound |-> LabeledCommitment_degree_bound(v),
     write |-> [cap \in 0 .. MaxSinkCap |-> LabeledCommitment_write(v, EmptySink(cap))]]

Obs(h) ==
    IF IsLP(h) THEN ObsLP(vals[h])
    ELSE IF IsLC(h) THEN ObsLC(vals[h])
    ELSE vals[h]

ReadOps ==
    {"label", "polynomial", "deref", "evaluate", "degree_bound", "hiding_bound",
     "is_hiding", "commitment", "write"}

\* ------------------------------------------------------------------ claims

\* C1: writing a LabeledCommitment to a byte sink puts exactly the bytes of
\* the wrapped commitment into it, for every label and degree bound; two
\* labeled commitments that wrap the same commitment serialize identically.
C1_WriteIsCommitmentBytes ==
    /\ ret.op = "write" =>
        /\ ret.val.writer.bytes =
             Commitment_write(args[ret.h].commitment, EmptySink(ret.arg[1])).writer.bytes
        /\ ret.val.res = "Ok" =>
             ret.val.writer.bytes = Commitment_to_bytes(args[ret.h].commitment)
    /\ \A h1, h2 \in Holders :
        (IsLC(h1) /\ IsLC(h2) /\ args[h1].commitment = args[h2].commitment) =>
            \A cap \in 0 .. MaxSinkCap :
                LabeledCommitment_write(vals[h1], EmptySink(cap)).writer.bytes =
                LabeledCommitment_write(vals[h2], EmptySink(cap)).writer.bytes

\* A labeled commitment with a three-byte encoding was written in full, while
\* another one wraps the same commitment under another label and bound.
C1_Witness ==
    /\ ret.op = "write"
    /\ ret.val.res = "Ok"
    /\ Len(ret.val.writer.bytes) = 3
    /\ \E h \in Holders :
        /\ h # ret.h
        /\ IsLC(h)
        /\ args[h].commitment = args[ret.h].commitment
        /\ args[h].label # args[ret.h].label
        /\ args[h].degree_bound # args[ret.h].degree_bound

\* C2: a value built by new_owned and one built by new from the same label,
\* polynomial content and bounds read the same through every accessor.
C2_OwnedBorrowedEquivalent ==
    \A h1, h2 \in Holders :
        (/\ IsLP(h1) /\ IsLP(h2)
         /\ args[h1].ctor = "new_owned" /\ args[h2].ctor = "new"
         /\ args[h1].label = args[h2].label
         /\ args[h1].polynomial = args[h2].polynomial
         /\ args[h1].degree_bound = args[h2].degree_bound
         /\ args[h1].hiding_bound = args[h2].hiding_bound)
        => ObsLP(vals[h1]) = ObsLP(vals[h2])

\* An owned and a borrowed value with the same arguments, whose two bounds
\* differ, after a read of one of them.
C2_Witness ==
    /\ ret.op = "evaluate"
    /\ \E h1, h2 \in Holders :
        /\ IsLP(h1) /\ IsLP(h2)
        /\ vals[h1].polynomial.tag = "Owned" /\ vals[h2].polynomial.tag = "Borrowed"
        /\ args[h1].ctor = "new_owned" /\ args[h2].ctor = "new"
        /\ args[h1].label = args[h2].label
        /\ args[h1].polynomial = args[h2].polynomial
        /\ args[h1].degree_bound = args[h2].degree_bound
        /\ args[h1].hiding_bound = args[h2].hiding_bound
        /\ args[h1].degree_bound # args[h1].hiding_bound

\* C3: is_hiding() is true exactly when hiding_bound() is present, whatever
\* the degree bound and whichever constructor built the value.
C3_IsHidingIffHidingBound ==
    /\ \A h \in Holders :
        IsLP(h) =>
            /\ LabeledPolynomial_is_hiding(vals[h]) =
                 is_some(LabeledPolynomial_hiding_bound(vals[h]))
            /\ LabeledPolynomial_is_hiding(vals[h]) = is_some(args[h].hiding_bound)
    /\ ret.op = "is_hiding" => ret.val = is_some(args[ret.h].hiding_bound)

\* is_hiding() was called on a value with a degree bound and no hiding
\* bound, while the other value has a hiding bound and no degree bound.
C3_Witness ==
    /\ ret.op = "is_hiding"
    /\ ret.val = FALSE
    /\ is_some(args[ret.h].degree_bound)
    /\ \E h \in Holders :
        IsLP(h) /\ args[h].degree_bound = None /\ is_some(args[h].hiding_bound)

\* What every held LabeledPolynomial reads as: the constructor's arguments,
\* in the constructor's storage mode.
C5_ReadOnlyInv ==
    \A h \in Holders :
        IsLP(h) =>
            /\ LabeledPolynomial_label(vals[h]) = args[h].label
            /\ LabeledPolynomial_polynomial(vals[h]) = args[h].polynomial
            /\ LabeledPolynomial_deref(vals[h]) = args[h].polynomial
            /\ LabeledPolynomial_degree_bound(vals[h]) = args[h].degree_bound
            /\ LabeledPolynomial_hiding_bound(vals[h]) = args[h].hiding_bound
            /\ vals[h].polynomial.tag =
                 (IF args[h].ctor = "new_owned" THEN "Owned" ELSE "Borrowed")

\* C5: a LabeledPolynomial is read-only after construction: at every moment
\* its label, polynomial and bounds are the constructor's arguments and its
\* storage mode is the constructor's, and no read changes any value or any
\* polynomial of the caller.
C5_ReadOnly ==
    /\ []C5_ReadOnlyInv
    /\ [][ret'.op \in ReadOps => (vals' = vals /\ store' = store)]_vars

\* evaluate() was just called on a borrowed value with a non-empty label.
C5_Witness ==
    /\ ret.op = "evaluate"
    /\ IsLP(ret.h)
    /\ vals[ret.h].polynomial.tag = "Borrowed"
    /\ args[ret.h].label = "p1"

\* C6: construction is total and validates nothing: with a variable free to
\* take the result, every constructor accepts every label (empty or already
\* in use), every degree bound (also one below the polynomial's degree) and
\* every hiding bound, returns a value, and the value's accessors return the
\* arguments.
C6_ConstructionTotal ==
    /\ \A h \in Holders :
        vals[h] = Free =>
            /\ \A l \in Labels, db \in SomeBounds, hb \in SomeBounds :
                /\ \A p \in SomePolys : ENABLED NewOwned(h, l, p, db, hb)
                /\ \A s \in Slots : store[s] # None => ENABLED New(h, l, s, db, hb)
            /\ \A l \in Labels, c \in SomeCommitments, db \in SomeBounds :
                ENABLED NewLC(h, l, c, db)
    /\ ret.op \in {"new_owned", "new"} =>
        /\ ret.val = "value"
        /\ IsLP(ret.h)
        /\ args[ret.h].ctor = ret.op
        /\ LabeledPolynomial_label(vals[ret.h]) = args[ret.h].label
        /\ LabeledPolynomial_polynomial(vals[ret.h]) = args[ret.h].polynomial
        /\ LabeledPolynomial_degree_bound(vals[ret.h]) = args[ret.h].degree_bound
        /\ LabeledPolynomial_hiding_bound(vals[ret.h]) = args[ret.h].hiding_bound
    /\ ret.op = "LabeledCommitment::new" =>
        /\ ret.val = "value"
        /\ IsLC(ret.h)
        /\ LabeledCommitment_label(vals[ret.h]) = args[ret.h].label
        /\ LabeledCommitment_commitment(vals[ret.h]) = args[ret.h].commitment
        /\ LabeledCommitment_degree_bound(vals[ret.h]) = args[ret.h].degree_bound

\* new_owned has just returned a value with the empty label, which the other
\* value carries too, and a degree bound below the polynomial's degree.
C6_Witness ==
    /\ ret.op = "new_owned"
    /\ args[ret.h].label = ""
    /\ is_some(args[ret.h].degree_bound)
    /\ args[ret.h].degree_bound[1] + 1 < Len(args[ret.h].polynomial)
    /\ \E h \in Holders : h # ret.h /\ vals[h] # Free /\ args[h].label = ""

\* C7: a clone reads as its original did when it was cloned, and no call on
\* one value (a read, a clone, its drop), nor anything the caller may do to
\* its own polynomials, changes what the accessors of another value return.
C7_ClonesIndependent ==
    [][/\ \A h, h2 \in Holders :
            (ret'.op = "clone" /\ ret'.h = h2 /\ ret'.arg = Some(h)) =>
                (Obs(h2))' = Obs(h)
       /\ \A h \in Holders :
            (vals[h] # Free /\ ret'.h # h) =>
                \* Obs(h) reads vals[h] and store only: compared when either changed.
                \/ (vals'[h] = vals[h] /\ store' = store)
                \/ (Obs(h))' = Obs(h)]_vars

\* A borrowed value has just been cloned: the clone and the original refer
\* to the same polynomial of the caller.
C7_Witness ==
    /\ ret.op = "clone"
    /\ \E h \in Holders :
        /\ ret.arg = Some(h)
        /\ IsLP(h) /\ IsLP(ret.h)
        /\ vals[h].polynomial.tag = "Borrowed"
        /\ vals[ret.h].polynomial = vals[h].polynomial

\* C10: LabeledCommitment::write returns the outcome the commitment's own
\* write has on the same sink (the same success or error, the same bytes in
\* the sink), and leaves the labeled commitment as it was constructed.
C10_WriteOutcomeIsCommitments ==
    ret.op = "write" =>
        /\ ret.val = Commitment_write(args[ret.h].commitment, EmptySink(ret.arg[1]))
        /\ (ret.val.res = "Ok") =
             (Commitment_size_in_bytes(args[ret.h].commitment) <= ret.arg[1])
        /\ vals[ret.h] =
             LabeledCommitment_new(args[ret.h].label, args[ret.h].commitment,
                                   args[ret.h].degree_bound)

\* A write failed on a sink that took only part of the encoding.
C10_Witness ==
    /\ ret.op = "write"
    /\ ret.val.res = "Err"
    /\ Len(ret.val.writer.bytes) > 0
    /\ Len(ret.val.writer.bytes) < Commitment_size_in_bytes(args[ret.h].commitment)

\* C4: wrapping never changes evaluation: evaluate(x) on a value built by
\* new_owned from p is p.evaluate(x) for every p, x, label and bounds; the
\* polynomial [1,2,3] wrapped as ("p1", Some(2), None) evaluates to 6 at 1,
\* reports the degree bound Some(2) and is not hiding.
C4_WrappingKeepsEvaluation ==
    /\ ret.op = "evaluate" =>
         ret.val = Polynomial_evaluate(args[ret.h].polynomial, ret.arg[1])
    /\ \A h \in Holders :
        (/\ IsLP(h)
         /\ args[h] = [ctor |-> "new_owned", label |-> "p1", polynomial |-> <<1, 2, 3>>,
                       degree_bound |-> Some(2), hiding_bound |-> None])
        => /\ LabeledPolynomial_evaluate(vals[h], 1) = 6
           /\ LabeledPolynomial_degree_bound(vals[h]) = Some(2)
           /\ LabeledPolynomial_is_hiding(vals[h]) = FALSE
           /\ (ret.op = "evaluate" /\ ret.arg = Some(1)) => ret.val = 6

\* The spec's scenario: evaluate(1) has returned 6 for [1,2,3] wrapped as
\* ("p1", Some(2), None).
C4_Witness ==
    /\ ret.op = "evaluate"
    /\ ret.h = "a"
    /\ ret.arg = Some(1)
    /\ ret.val = 6
    /\ args["a"] = [ctor |-> "new_owned", label |-> "p1", polynomial |-> <<1, 2, 3>>,
                    degree_bound |-> Some(2), hiding_bound |-> None]

====
